---- MODULE Spec2Model ----
(***************************************************************************)
(* Model of auditor_agent.tools.json_to_markdown_table, the                *)
(* after_model_callback of audit_results_aggregator_agent.                 *)
(*                                                                         *)
(* Text is a sequence of one-character strings, so that trimming,          *)
(* escaping, joining and line structure are computed character by          *)
(* character as Python computes them.  A JSON value is a record            *)
(*   [t, s, n, d, items]                                                   *)
(* where t is its type ("str", "null", "int", "dict", "list"), s the       *)
(* characters of a string, n the number of an int, d the key -> value      *)
(* function of a dict and items the elements of a list.                    *)
(***************************************************************************)
EXTENDS Integers, Sequences, FiniteSets, TLC

\* Longest candidate sequence (json_data) drawn as input.
MaxItems == 2
\* Most content segments (parts) of a drawn response.
MaxParts == 2

---------------------------------------------------------------------------
\* Python primitives used by the function

Range(f) == {f[i] : i \in DOMAIN f}

Lower == <<"a","b","c","d","e","f","g","h","i","j","k","l","m",
           "n","o","p","q","r","s","t","u","v","w","x","y","z">>
Upper == <<"A","B","C","D","E","F","G","H","I","J","K","L","M",
           "N","O","P","Q","R","S","T","U","V","W","X","Y","Z">>
Digit == <<"0","1","2","3","4","5","6","7","8","9">>

\* ord(c): the code point Python compares characters by.
CodePoint(c) ==
    IF \E i \in DOMAIN Lower : Lower[i] = c
    THEN 96 + (CHOOSE i \in DOMAIN Lower : Lower[i] = c)
    ELSE IF \E i \in DOMAIN Upper : Upper[i] = c
    THEN 64 + (CHOOSE i \in DOMAIN Upper : Upper[i] = c)
    ELSE IF \E i \in DOMAIN Digit : Digit[i] = c
    THEN 47 + (CHOOSE i \in DOMAIN Digit : Digit[i] = c)
    ELSE CASE c = "\n" -> 10
           [] c = " "  -> 32
           [] c = "#"  -> 35
           [] c = "-"  -> 45
           [] c = ":"  -> 58
           [] c = "<"  -> 60
           [] c = ">"  -> 62
           [] c = "["  -> 91
           [] c = "\\" -> 92
           [] c = "]"  -> 93
           [] c = "_"  -> 95
           [] c = "|"  -> 124

\* str.__lt__: lexicographic by code point, a proper prefix is smaller.
RECURSIVE StrLess(_, _)
StrLess(a, b) ==
    IF b = <<>> THEN FALSE
    ELSE IF a = <<>> THEN TRUE
    ELSE IF Head(a) = Head(b) THEN StrLess(Tail(a), Tail(b))
    ELSE CodePoint(Head(a)) < CodePoint(Head(b))

\* sorted(keys): ascending list of a set of strings.
RECURSIVE sorted(_)
sorted(S) ==
    IF S = {} THEN <<>>
    ELSE LET m == CHOOSE x \in S : \A y \in S \ {x} : StrLess(x, y)
         IN  <<m>> \o sorted(S \ {m})

\* str.isspace for the characters of the model's alphabet.
IsSpace(c) == c \in {" ", "\n"}

RECURSIVE lstrip(_)
lstrip(s) == IF s # <<>> /\ IsSpace(Head(s)) THEN lstrip(Tail(s)) ELSE s

RECURSIVE rstrip(_)
rstrip(s) ==
    IF s # <<>> /\ IsSpace(s[Len(s)]) THEN rstrip(SubSeq(s, 1, Len(s) - 1)) ELSE s

\* strip() mistaken for lstrip(): trailing whitespace stays.
strip_leading_only(s) == lstrip(s)

\* str.strip(): surrounding whitespace removed.
strip(s) == rstrip(lstrip(s))

\* str.replace(old, new) for a one-character old.
RECURSIVE replace(_, _, _)
replace(s, old, new) ==
    IF s = <<>> THEN <<>>
    ELSE (IF Head(s) = old THEN new ELSE <<Head(s)>>) \o replace(Tail(s), old, new)

\* sep.join(list)
RECURSIVE join(_, _)
join(sep, list) ==
    IF list = <<>> THEN <<>>
    ELSE IF Len(list) = 1 THEN list[1]
    ELSE list[1] \o sep \o join(sep, Tail(list))

\* str(n) of a non-negative int.
RECURSIVE IntStr(_)
IntStr(n) == IF n < 10 THEN <<Digit[n + 1]>> ELSE IntStr(n \div 10) \o <<Digit[(n % 10) + 1]>>

---------------------------------------------------------------------------
\* JSON values as json.loads builds them

JStr(s)   == [t |-> "str",  s |-> s,    n |-> 0, d |-> <<>>, items |-> <<>>]
JNull     == [t |-> "null", s |-> <<>>, n |-> 0, d |-> <<>>, items |-> <<>>]
JInt(n)   == [t |-> "int",  s |-> <<>>, n |-> n, d |-> <<>>, items |-> <<>>]
JDict(d)  == [t |-> "dict", s |-> <<>>, n |-> 0, d |-> d,    items |-> <<>>]
JList(xs) == [t |-> "list", s |-> <<>>, n |-> 0, d |-> <<>>, items |-> xs]

\* str(value) for the values a cell or a text field holds in the model:
\* strings, None, non-negative ints and the empty list.
PyStr(v) ==
    CASE v.t = "str"  -> v.s
      [] v.t = "null" -> <<"N","o","n","e">>
      [] v.t = "int"  -> IntStr(v.n)
      [] v.t = "list" -> <<"[","]">>

\* isinstance(x, dict), isinstance(x, list)
IsDict(v) == v.t = "dict"
IsList(v) == v.t = "list"

\* dict.get(key, default)
Get(item, key, default) == IF key \in DOMAIN item.d THEN item.d[key] ELSE default

\* item[key] = value
SetItem(item, key, value) ==
    JDict([k \in (DOMAIN item.d) \cup {key} |-> IF k = key THEN value ELSE item.d[k]])

---------------------------------------------------------------------------
\* Responses (LlmResponse, types.Content, types.Part)

\* The text of a part.  wf says whether json.loads accepts it; a text that
\* is accepted stands for the serialisation of doc, one that is rejected
\* is the free text raw.
JsonText(doc) == [wf |-> TRUE,  doc |-> doc,   raw |-> <<>>]
FreeText(raw) == [wf |-> FALSE, doc |-> JNull, raw |-> raw]

\* types.Part(text=...), and a part that carries no text (a function call).
TextPart(text) == [has_text |-> TRUE,  text |-> text]
NoTextPart     == [has_text |-> FALSE, text |-> FreeText(<<>>)]

\* types.Content(role=..., parts=...); parts_set is FALSE for parts=None.
Content(role, parts) ==
    [present |-> TRUE, role |-> role, parts_set |-> TRUE, parts |-> parts]
ContentNoParts(role) ==
    [present |-> TRUE, role |-> role, parts_set |-> FALSE, parts |-> <<>>]
NoContent ==
    [present |-> FALSE, role |-> "none", parts_set |-> FALSE, parts |-> <<>>]

\* LlmResponse(content=...)
LlmResponse(content) == [content |-> content]

\* json.loads(str(part.text)): the parsed value, or JSONDecodeError.
JsonLoads(text) == [ok |-> text.wf, value |-> text.doc]

---------------------------------------------------------------------------
\* json_to_markdown_table, step by step

corrections_key == <<"c","o","r","r","e","c","t","i","o","n","s">>
correction_number == <<"c","o","r","r","e","c","t","i","o","n","_","n","u","m","b","e","r">>
severity == <<"s","e","v","e","r","i","t","y">>
violation_category == <<"v","i","o","l","a","t","i","o","n","_","c","a","t","e","g","o","r","y">>
specific_location == <<"s","p","e","c","i","f","i","c","_","l","o","c","a","t","i","o","n">>
text_before_revision == <<"t","e","x","t","_","b","e","f","o","r","e","_","r","e","v","i","s","i","o","n">>
text_after_revision == <<"t","e","x","t","_","a","f","t","e","r","_","r","e","v","i","s","i","o","n">>
reason_for_revision == <<"r","e","a","s","o","n","_","f","o","r","_","r","e","v","i","s","i","o","n">>
rule_id == <<"r","u","l","e","_","i","d">>

desired_order ==
    <<correction_number, severity, violation_category, specific_location,
      text_before_revision, text_after_revision, reason_for_revision, rule_id>>

prefix ==
    <<"\n","#","#"," ","D","o","c","u","m","e","n","t"," ","A","u","d","i","t"," ",
      "R","e","s","u","l","t","s","\n","\n","T","h","e"," ","f","o","l","l","o","w",
      "i","n","g"," ","t","a","b","l","e"," ","s","h","o","w","s"," ","t","h","e"," ",
      "a","u","d","i","t"," ","f","i","n","d","i","n","g","s",":","\n","\n">>

\* The guard of lines 29-35: no content, or parts None or empty.
NoParts(resp) ==
    \/ ~resp.content.present
    \/ ~resp.content.parts_set
    \/ resp.content.parts = <<>>

\* PayloadOf with the elif of lines 45-46 left out: a bare list is not taken.
PayloadOfCorrectionsOnly(parsed_json) ==
    IF IsDict(parsed_json) /\ corrections_key \in DOMAIN parsed_json.d
    THEN parsed_json.d[corrections_key]
    ELSE JNull

\* What one successfully parsed value leaves in json_data (lines 43-46).
PayloadOf(parsed_json) ==
    IF IsDict(parsed_json) /\ corrections_key \in DOMAIN parsed_json.d
    THEN parsed_json.d[corrections_key]
    ELSE IF IsList(parsed_json) THEN parsed_json
    ELSE JNull

\* ScanParts with json_data starting as an empty list instead of None:
\* text that does not parse then yields an empty table.
RECURSIVE ScanPartsDefaultEmpty(_)
ScanPartsDefaultEmpty(parts) ==
    IF parts = <<>> THEN JList(<<>>)
    ELSE LET part == Head(parts)
         IN  IF part.has_text /\ JsonLoads(part.text).ok
             THEN PayloadOf(JsonLoads(part.text).value)
             ELSE ScanPartsDefaultEmpty(Tail(parts))

\* ScanParts with the break of line 47 taken only once json_data is set:
\* a parsed value of no accepted shape lets the loop go on.
RECURSIVE ScanPartsUntilAccepted(_)
ScanPartsUntilAccepted(parts) ==
    IF parts = <<>> THEN JNull
    ELSE LET part == Head(parts)
         IN  IF /\ part.has_text
                /\ JsonLoads(part.text).ok
                /\ PayloadOf(JsonLoads(part.text).value).t # "null"
             THEN PayloadOf(JsonLoads(part.text).value)
             ELSE ScanPartsUntilAccepted(Tail(parts))

\* The loop over parts (lines 37-49): json_data after it, None (JNull) when
\* nothing was assigned.  The loop breaks at the first part that parses.
RECURSIVE ScanParts(_)
ScanParts(parts) ==
    IF parts = <<>> THEN JNull
    ELSE LET part == Head(parts)
         IN  IF part.has_text
             THEN LET r == JsonLoads(part.text)
                  IN  IF r.ok THEN PayloadOf(r.value) ELSE ScanParts(Tail(parts))
             ELSE ScanParts(Tail(parts))

\* The test of lines 63-67 on one dict item.
text_before(item) == strip(PyStr(Get(item, text_before_revision, JStr(<<>>))))
text_after(item)  == strip(PyStr(Get(item, text_after_revision, JStr(<<>>))))

\* str.lower()
lower(s) ==
    [i \in 1..Len(s) |->
        IF \E u \in DOMAIN Upper : Upper[u] = s[i]
        THEN Lower[CHOOSE u \in DOMAIN Upper : Upper[u] = s[i]]
        ELSE s[i]]

\* The comparison of line 67 made without regard to letter case.
IsFilteredOutIgnoringCase(item) == lower(text_before(item)) = lower(text_after(item))

\* The comparison of line 67 made on the values themselves, trimmed when
\* they are strings, instead of on their string forms.
IsFilteredOutByValue(item) ==
    LET trim(v) == IF v.t = "str" THEN JStr(strip(v.s)) ELSE v
    IN  trim(Get(item, text_before_revision, JStr(<<>>)))
          = trim(Get(item, text_after_revision, JStr(<<>>)))

IsFilteredOut(item) == text_before(item) = text_after(item)

\* FilterLoop with the isinstance test of line 62 guarding the comparison
\* only: an element that is not a dict is appended as it is.
RECURSIVE FilterLoopKeepsAll(_, _, _)
FilterLoopKeepsAll(json_data, i, acc) ==
    IF i > Len(json_data) THEN acc
    ELSE LET item == json_data[i]
         IN  IF IsDict(item) /\ IsFilteredOut(item)
             THEN FilterLoopKeepsAll(json_data, i + 1,
                                     [acc EXCEPT !.filtered_count = @ + 1])
             ELSE FilterLoopKeepsAll(json_data, i + 1,
                                     [acc EXCEPT !.filtered_data = Append(@, item),
                                                 !.kept = Append(@, i)])

\* The filter loop (lines 58-71) from element i on.  acc carries
\* filtered_data, filtered_count and, for each kept item, its index in
\* json_data.
RECURSIVE FilterLoop(_, _, _)
FilterLoop(json_data, i, acc) ==
    IF i > Len(json_data) THEN acc
    ELSE LET item == json_data[i]
         IN  IF ~IsDict(item) THEN FilterLoop(json_data, i + 1, acc)
             ELSE IF IsFilteredOut(item)
             THEN FilterLoop(json_data, i + 1,
                             [acc EXCEPT !.filtered_count = @ + 1])
             ELSE FilterLoop(json_data, i + 1,
                             [acc EXCEPT !.filtered_data = Append(@, item),
                                         !.kept = Append(@, i)])

\* Renumber with the loop of lines 74-75 left out: the records keep the
\* numbers they came with.
RenumberSkipped(filtered_data) == filtered_data

\* The renumbering loop (lines 74-75).
Renumber(filtered_data) ==
    [i \in 1..Len(filtered_data) |->
        SetItem(filtered_data[i], correction_number, JInt(i))]

\* all_keys (lines 80-83)
AllKeys(json_data) ==
    UNION {DOMAIN json_data[i].d : i \in {j \in DOMAIN json_data : IsDict(json_data[j])}}

\* Headers with the extra keys appended as the set yields them, latest
\* first, instead of sorted.
HeadersExtrasUnsorted(all_keys) ==
    LET headers == SelectSeq(desired_order, LAMBDA key : key \in all_keys)
        extra_keys == sorted({key \in all_keys : key \notin Range(headers)})
    IN  headers \o [i \in 1..Len(extra_keys) |-> extra_keys[Len(extra_keys) + 1 - i]]

\* headers (lines 98-102)
Headers(all_keys) ==
    LET headers == SelectSeq(desired_order, LAMBDA key : key \in all_keys)
        extra_keys == sorted({key \in all_keys : key \notin Range(headers)})
    IN  headers \o extra_keys

\* One cell (lines 115-124).
CellValue(item, header) ==
    LET value == Get(item, header, JStr(<<>>))
        text  == IF value.t = "null" THEN <<>> ELSE PyStr(value)
        piped == replace(text, "|", <<"\\", "|">>)
    IN  replace(piped, "\n", <<"<", "b", "r", ">">>)

\* row_values of one item (lines 113-125)
RowValues(item, headers) == [h \in 1..Len(headers) |-> CellValue(item, headers[h])]

\* "| " + " | ".join(cells) + " |"  (lines 105, 108, 127)
RowText(cells) == <<"|", " ">> \o join(<<" ", "|", " ">>, cells) \o <<" ", "|">>

header_row(headers) == RowText(headers)
separator_row(headers) == RowText([h \in 1..Len(headers) |-> <<"-", "-", "-">>])

\* markdown_table (lines 131-132)
MarkdownTable(headers, data_rows) ==
    prefix \o join(<<"\n">>, <<header_row(headers), separator_row(headers)>> \o data_rows)

\* NewResponse with the table appended to a leading empty segment.
NewResponseTwoParts(markdown_table) ==
    LlmResponse(Content("model", <<TextPart(FreeText(<<>>)),
                                   TextPart(FreeText(markdown_table))>>))

\* new_response (lines 133-138)
NewResponse(markdown_table) ==
    LlmResponse(Content("model", <<TextPart(FreeText(markdown_table))>>))

\* item["correction_number"] = i (line 75) and item.get (line 115) raise
\* for an element of filtered_data that is not a dict.
NotSubscriptable(filtered_data) ==
    \E i \in 1..Len(filtered_data) : ~IsDict(filtered_data[i])

\* The locals of a call that returned before building a table.
NoTable ==
    [candidate |-> <<>>, kept |-> <<>>, filtered_data |-> <<>>, filtered_count |-> 0,
     headers |-> <<>>, row_values |-> <<>>, data_rows |-> <<>>]

\* The whole function: the value returned and the locals it ended with.
Run(resp) ==
    IF NoParts(resp)
    THEN [returned |-> resp, replaced |-> FALSE, error |-> "none", locals |-> NoTable]
    ELSE LET json_data == ScanParts(resp.content.parts)
         IN  IF json_data.t = "null" \/ ~IsList(json_data)
             THEN [returned |-> resp, replaced |-> FALSE, error |-> "none",
                   locals |-> NoTable]
             ELSE LET f == FilterLoop(json_data.items, 1,
                                      [filtered_data |-> <<>>, filtered_count |-> 0,
                                       kept |-> <<>>])
                      filtered_data == Renumber(f.filtered_data)
                      headers == Headers(AllKeys(filtered_data))
                      row_values == [i \in 1..Len(filtered_data) |->
                                        RowValues(filtered_data[i], headers)]
                      data_rows == [i \in 1..Len(filtered_data) |-> RowText(row_values[i])]
                  IN  IF NotSubscriptable(f.filtered_data)
                      THEN [returned |-> LlmResponse(NoContent), replaced |-> FALSE,
                            error |-> "TypeError", locals |-> NoTable]
                      ELSE
                      [returned |-> NewResponse(MarkdownTable(headers, data_rows)),
                       replaced |-> TRUE, error |-> "none",
                       locals |-> [candidate |-> json_data.items, kept |-> f.kept,
                                   filtered_data |-> filtered_data,
                                   filtered_count |-> f.filtered_count,
                                   headers |-> headers, row_values |-> row_values,
                                   data_rows |-> data_rows]]

\* The function writing the table into the response it was given.
ArgumentRewritten(resp, out) == out.returned

\* The response object the caller passed, after the call: the function
\* assigns to no attribute of llm_response, of its content or of its parts
\* (the renumbering of line 75 writes to the dicts json.loads built).
ArgumentAfter(resp, out) == resp

\* callback_context.state after the call: the function never touches
\* callback_context.
StateAfter(st, out) == st

---------------------------------------------------------------------------
\* Inputs

S1Record ==
    JDict(correction_number :> JInt(5) @@
          specific_location :> JStr(<<"S","1">>) @@
          text_before_revision :> JStr(<<"t","e","h">>) @@
          text_after_revision :> JStr(<<"t","h","e">>) @@
          reason_for_revision :> JStr(<<"t","y","p","o">>) @@
          violation_category :> JStr(<<"W","r","i","t","i","n","g">>) @@
          rule_id :> JNull @@
          severity :> JStr(<<"L","o","w">>))

\* before == after, and a key ("note") that no other record has.
SameRecord ==
    JDict(correction_number :> JInt(2) @@
          text_before_revision :> JStr(<<"t","e","h">>) @@
          text_after_revision :> JStr(<<"t","e","h">>) @@
          <<"n","o","t","e">> :> JStr(<<"x">>))

\* equal only after trimming
PaddedRecord ==
    JDict(text_before_revision :> JStr(<<" ","a">>) @@
          text_after_revision :> JStr(<<"a","\n"," ">>))

\* different only in letter case
CaseRecord ==
    JDict(correction_number :> JInt(1) @@
          text_before_revision :> JStr(<<"a">>) @@
          text_after_revision :> JStr(<<"A">>))

\* pipes and line breaks in values, two keys outside desired_order
EscRecord ==
    JDict(correction_number :> JInt(1) @@
          text_before_revision :> JStr(<<"x","|","y">>) @@
          text_after_revision :> JStr(<<"x","\n","y","|">>) @@
          <<"z","e","t","a">> :> JStr(<<"v">>) @@
          <<"B","e","t","a">> :> JNull)

\* a pipe in a key
PipeKeyRecord ==
    JDict(text_before_revision :> JStr(<<"p">>) @@
          text_after_revision :> JStr(<<"q">>) @@
          <<"a","|","b">> :> JStr(<<"w">>))

\* a line break in a key
BreakKeyRecord ==
    JDict(text_before_revision :> JStr(<<"p">>) @@
          text_after_revision :> JStr(<<"q">>) @@
          <<"k","\n","l">> :> JStr(<<"w">>))

EmptyRecord == JDict(<<>>)

\* both text fields present and blank
BlankRecord ==
    JDict(text_before_revision :> JStr(<<" ">>) @@
          text_after_revision :> JStr(<<>>))

OnlyAfterRecord == JDict(text_after_revision :> JStr(<<"q">>) @@ severity :> JInt(3))

NoneRecord ==
    JDict(text_before_revision :> JNull @@
          text_after_revision :> JStr(<<"N","o","n","e">>))

NumberRecord ==
    JDict(text_before_revision :> JInt(1) @@
          text_after_revision :> JStr(<<"1">>))

\* The elements a candidate sequence is drawn from: records, and values
\* that are not mappings.
Items ==
    {S1Record, SameRecord, PaddedRecord, CaseRecord, EscRecord, PipeKeyRecord,
     BreakKeyRecord, EmptyRecord, BlankRecord, OnlyAfterRecord, NoneRecord, NumberRecord,
     JNull, JInt(7), JList(<<>>)}

SeqsUpTo(S, n) == UNION {[1..k -> S] : k \in 0..n}

Candidates == SeqsUpTo(Items, MaxItems)

FooBar == JDict(<<"f","o","o">> :> JStr(<<"b","a","r">>))

\* Parsed payloads of every shape.
Docs ==
    {JStr(<<"x">>), JInt(7), JNull, FooBar, JDict(<<>>),
     JDict(corrections_key :> JStr(<<"x">>)),
     JDict(corrections_key :> JNull),
     JDict(corrections_key :> FooBar),
     JDict(corrections_key :> JInt(7))}
    \cup {JList(c) : c \in Candidates}
    \cup {JDict(corrections_key :> JList(c)) : c \in Candidates}
    \cup {JDict(corrections_key :> JList(c) @@ <<"f","o","o">> :> JInt(1)) :
            c \in SeqsUpTo({S1Record, SameRecord}, 1)}

Hello == FreeText(<<"h","e","l","l","o">>)

\* The parts responses of several segments are built from.
FewParts ==
    {NoTextPart, TextPart(Hello), TextPart(FreeText(<<>>)),
     TextPart(JsonText(FooBar)), TextPart(JsonText(JInt(7))),
     TextPart(JsonText(JList(<<CaseRecord>>))),
     TextPart(JsonText(JDict(corrections_key :> JList(<<S1Record, SameRecord>>))))}

Roles == {"model", "user", "none"}

Responses ==
    {LlmResponse(NoContent)}
    \cup {LlmResponse(ContentNoParts(r)) : r \in Roles}
    \cup {LlmResponse(Content(r, <<>>)) : r \in Roles}
    \cup {LlmResponse(Content(r, <<TextPart(JsonText(doc))>>)) : r \in Roles, doc \in Docs}
    \cup {LlmResponse(Content(r, ps)) : r \in Roles, ps \in SeqsUpTo(FewParts, MaxParts)}

\* callback_context.state when the callback runs: the outputs the three
\* earlier agents stored under their output_key.
States ==
    {[file_content |-> "document A",
      spelling_grammar_audit_result |-> "spelling findings",
      guidelines_compliance_audit_result |-> "compliance findings"]}

---------------------------------------------------------------------------
\* The agents of audit_pipeline as agent.py declares them

file_retrieval_agent == "file_retrieval_agent"
spelling_grammar_auditor_agent == "spelling_grammar_auditor_agent"
guidelines_compliance_auditor_agent == "guidelines_compliance_auditor_agent"
audit_results_aggregator_agent == "audit_results_aggregator_agent"

\* sub_agents with the aggregator listed before the second-pass auditor.
sub_agents_aggregator_early ==
    <<file_retrieval_agent, spelling_grammar_auditor_agent,
      audit_results_aggregator_agent, guidelines_compliance_auditor_agent>>

\* audit_pipeline.sub_agents, in the order SequentialAgent runs them.
sub_agents ==
    <<file_retrieval_agent, spelling_grammar_auditor_agent,
      guidelines_compliance_auditor_agent, audit_results_aggregator_agent>>

\* output_key with the second-pass auditor storing under the key of the
\* retrieval agent.
output_key_reused(agent) ==
    CASE agent = file_retrieval_agent -> {"file_content"}
      [] agent = spelling_grammar_auditor_agent -> {"spelling_grammar_audit_result"}
      [] agent = guidelines_compliance_auditor_agent -> {"file_content"}
      [] agent = audit_results_aggregator_agent -> {}

\* output_key with the first-pass auditor declaring none.
output_key_dropped(agent) ==
    CASE agent = file_retrieval_agent -> {"file_content"}
      [] agent = spelling_grammar_auditor_agent -> {}
      [] agent = guidelines_compliance_auditor_agent -> {"guidelines_compliance_audit_result"}
      [] agent = audit_results_aggregator_agent -> {}

\* The output_key each agent declares: a set of one key, or empty for the
\* aggregator, which declares none.
output_key(agent) ==
    CASE agent = file_retrieval_agent -> {"file_content"}
      [] agent = spelling_grammar_auditor_agent -> {"spelling_grammar_audit_result"}
      [] agent = guidelines_compliance_auditor_agent -> {"guidelines_compliance_audit_result"}
      [] agent = audit_results_aggregator_agent -> {}

\* The {key} placeholders of each agent's instruction.
instruction_keys(agent) ==
    CASE agent = file_retrieval_agent -> {}
      [] agent = spelling_grammar_auditor_agent -> {"file_content"}
      [] agent = guidelines_compliance_auditor_agent ->
            {"file_content", "spelling_grammar_audit_result"}
      [] agent = audit_results_aggregator_agent ->
            {"file_content", "spelling_grammar_audit_result",
             "guidelines_compliance_audit_result"}

\* after_model_callback registered on every agent.
after_model_callback_everywhere(agent) == TRUE

\* Whether the agent registers after_model_callback=json_to_markdown_table.
after_model_callback(agent) == agent = audit_results_aggregator_agent

\* An error callback on every agent, which answers in place of the error.
on_model_error_callback_everywhere(agent) == TRUE

\* Whether the agent registers a callback that absorbs a model error: no
\* agent does.
on_model_error_callback(agent) == FALSE

\* The texts the model may answer with for the first three agents: free
\* text, or JSON shaped like a corrections payload.
ModelTexts(agent) ==
    CASE agent = file_retrieval_agent ->
            {FreeText(<<"d","o","c">>),
             JsonText(JDict(corrections_key :> JList(<<CaseRecord>>)))}
      [] agent = spelling_grammar_auditor_agent ->
            {FreeText(<<"o","k">>),
             JsonText(JDict(corrections_key :> JList(<<S1Record, SameRecord>>)))}
      [] agent = guidelines_compliance_auditor_agent ->
            {FreeText(<<"f","i","n","e">>), JsonText(JList(<<S1Record>>))}
      [] agent = audit_results_aggregator_agent ->
            {Hello, JsonText(FooBar), JsonText(JList(<<SameRecord>>)),
             JsonText(JDict(corrections_key :> JList(<<SameRecord, S1Record>>)))}

\* The responses the model may give an agent.
ModelResponses(agent) ==
    {LlmResponse(Content("model", <<TextPart(t)>>)) : t \in ModelTexts(agent)}

\* The response that stands in for a model error an error callback absorbed.
FallbackResponse == LlmResponse(Content("model", <<TextPart(FreeText(<<>>))>>))

\* The text of an agent's final response, which is what is stored under its
\* output_key.
OutputText(resp) == resp.content.parts[1].text

\* state[key] = value
StoreOutput(st, keys, value) ==
    [k \in (DOMAIN st) \cup keys |-> IF k \in keys THEN value ELSE st[k]]

---------------------------------------------------------------------------
\* State

VARIABLES
    current,         \* index in sub_agents of the agent running or to run next
    run_status,      \* "running", "failed" or "finished"
    active,          \* the agents running now
    started,         \* the agents started so far, in order
    outputs,         \* per completed agent: the model's text and the agent's output
    written_by,      \* per state key, the agent that stored it
    callback_calls,  \* the agents json_to_markdown_table ran for, in order
    outcome,         \* what the caller of the pipeline observes
    raised,          \* the agents an exception was raised in, in order
    pc,              \* "call" before json_to_markdown_table runs, "done" after
    llm_response,    \* the response object passed to the callback
    state,           \* callback_context.state
    returned,        \* the value the callback returned
    replaced,        \* whether the return of line 139 was taken
    json_data,       \* the candidate sequence (lines 44, 46)
    kept,            \* indices in json_data of the items appended at line 71
    filtered_data,   \* filtered_data after the renumbering of line 75
    filtered_count,  \* filtered_count
    headers,         \* headers
    row_values,      \* row_values of each data row
    data_rows,       \* data_rows
    error            \* the exception the call ended with, "none" if it returned

tablevars == <<returned, replaced, json_data, kept, filtered_data, filtered_count,
               headers, row_values, data_rows>>

runvars == <<current, run_status, active, started, outputs, written_by, outcome,
             raised>>

vars == <<pc, llm_response, state, error, callback_calls, tablevars, runvars>>

Pending == [kind |-> "pending", response |-> LlmResponse(NoContent)]
Failure == [kind |-> "error", response |-> LlmResponse(NoContent)]
Answer(resp) == [kind |-> "response", response |-> resp]

\* The run as it stands when the aggregator's model has answered: the three
\* earlier agents have completed and stored the entries of st.
RunAtCallback(st) ==
    /\ current = Len(sub_agents)
    /\ run_status = "running"
    /\ active = {audit_results_aggregator_agent}
    /\ started = sub_agents
    /\ outputs = [i \in 1..3 |->
                    [agent |-> sub_agents[i],
                     raw |-> st[CHOOSE k \in output_key(sub_agents[i]) : TRUE],
                     out |-> st[CHOOSE k \in output_key(sub_agents[i]) : TRUE]]]
    /\ written_by = [k \in DOMAIN st |->
                       CHOOSE a \in Range(sub_agents) : k \in output_key(a)]
    /\ callback_calls = <<>>
    /\ outcome = Pending
    /\ raised = <<>>

Init ==
    /\ pc = "call"
    /\ llm_response \in Responses
    /\ state \in States
    /\ returned = LlmResponse(NoContent)
    /\ replaced = FALSE
    /\ json_data = <<>>
    /\ kept = <<>>
    /\ filtered_data = <<>>
    /\ filtered_count = 0
    /\ headers = <<>>
    /\ row_values = <<>>
    /\ data_rows = <<>>
    /\ error = "none"
    /\ RunAtCallback(state)

json_to_markdown_table ==
    /\ pc = "call"
    /\ LET out == Run(llm_response)
       IN  /\ returned' = out.returned
           /\ replaced' = out.replaced
           /\ json_data' = out.locals.candidate
           /\ kept' = out.locals.kept
           /\ filtered_data' = out.locals.filtered_data
           /\ filtered_count' = out.locals.filtered_count
           /\ headers' = out.locals.headers
           /\ row_values' = out.locals.row_values
           /\ data_rows' = out.locals.data_rows
           /\ error' = out.error
           /\ llm_response' = ArgumentAfter(llm_response, out)
           /\ state' = StateAfter(state, out)
    /\ pc' = "done"
    /\ callback_calls' = Append(callback_calls, sub_agents[current])
    /\ UNCHANGED runvars

Next == json_to_markdown_table

Spec == Init /\ [][Next]_vars

---------------------------------------------------------------------------
\* audit_pipeline: SequentialAgent over sub_agents

PipelineInit ==
    /\ pc = "idle"
    /\ llm_response = LlmResponse(NoContent)
    /\ state = [k \in {} |-> FreeText(<<>>)]
    /\ returned = LlmResponse(NoContent)
    /\ replaced = FALSE
    /\ json_data = <<>>
    /\ kept = <<>>
    /\ filtered_data = <<>>
    /\ filtered_count = 0
    /\ headers = <<>>
    /\ row_values = <<>>
    /\ data_rows = <<>>
    /\ error = "none"
    /\ current = 1
    /\ run_status = "running"
    /\ active = {}
    /\ started = <<>>
    /\ outputs = <<>>
    /\ written_by = [k \in {} |-> ""]
    /\ callback_calls = <<>>
    /\ outcome = Pending
    /\ raised = <<>>

\* The next agent may start: the run has not ended and no agent is running.
CanStart == run_status = "running" /\ active = {}

\* The next agent of sub_agents starts; its instruction is built from
\* state, which is a KeyError when a placeholder's key is absent.
StartAgent ==
    /\ CanStart
    /\ current <= Len(sub_agents)
    /\ LET agent == sub_agents[current]
       IN  /\ started' = Append(started, agent)
           /\ IF instruction_keys(agent) \subseteq DOMAIN state
              THEN /\ active' = active \cup {agent}
                   /\ UNCHANGED <<run_status, error, outcome, raised>>
              ELSE /\ run_status' = "failed"
                   /\ error' = "KeyError"
                   /\ outcome' = Failure
                   /\ raised' = Append(raised, agent)
                   /\ UNCHANGED active
    /\ UNCHANGED <<pc, llm_response, state, callback_calls, tablevars,
                   current, outputs, written_by>>

\* The model answers the running agent.
ModelResponds ==
    /\ run_status = "running"
    /\ pc = "idle"
    /\ \E agent \in active :
          /\ agent = sub_agents[current]
          /\ \E resp \in ModelResponses(agent) : llm_response' = resp
          /\ pc' = IF after_model_callback(agent) THEN "call" ELSE "raw"
    /\ UNCHANGED <<state, error, callback_calls, tablevars, runvars>>

\* The model call of the running agent raises.  With no error callback the
\* exception leaves the agent and the pipeline.
ModelFails ==
    /\ run_status = "running"
    /\ pc = "idle"
    /\ \E agent \in active :
          /\ agent = sub_agents[current]
          /\ raised' = Append(raised, agent)
          /\ IF on_model_error_callback(agent)
             THEN /\ llm_response' = FallbackResponse
                  /\ pc' = "raw"
                  /\ UNCHANGED <<run_status, active, outcome>>
             ELSE /\ run_status' = "failed"
                  /\ active' = {}
                  /\ outcome' = Failure
                  /\ UNCHANGED <<pc, llm_response>>
    /\ UNCHANGED <<state, error, callback_calls, tablevars,
                   current, started, outputs, written_by>>

\* The running agent ends with its final response: the model's, or the one
\* the callback returned.  The text is stored under the agent's output_key
\* and the run moves on; after the last agent the caller has the response.
CompleteAgent ==
    /\ run_status = "running"
    /\ pc \in {"raw", "done"}
    /\ \E agent \in active :
          /\ agent = sub_agents[current]
          /\ IF error # "none"
             THEN /\ run_status' = "failed"
                  /\ outcome' = Failure
                  /\ active' = {}
                  /\ raised' = Append(raised, agent)
                  /\ UNCHANGED <<state, outputs, written_by, current>>
             ELSE LET final == IF pc = "done" THEN returned ELSE llm_response
                  IN  /\ state' = StoreOutput(state, output_key(agent), OutputText(final))
                      /\ written_by' = StoreOutput(written_by, output_key(agent), agent)
                      /\ outputs' = Append(outputs,
                                           [agent |-> agent,
                                            raw |-> OutputText(llm_response),
                                            out |-> OutputText(final)])
                      /\ active' = active \ {agent}
                      /\ current' = current + 1
                      /\ IF current = Len(sub_agents)
                         THEN run_status' = "finished" /\ outcome' = Answer(final)
                         ELSE UNCHANGED <<run_status, outcome>>
                      /\ UNCHANGED raised
    /\ pc' = "idle"
    /\ UNCHANGED <<llm_response, error, callback_calls, tablevars, started>>

PipelineNext ==
    \/ StartAgent
    \/ ModelResponds
    \/ ModelFails
    \/ json_to_markdown_table
    \/ CompleteAgent

Pipeline == PipelineInit /\ [][PipelineNext]_vars

---------------------------------------------------------------------------
\* Vocabulary of the properties, stated without the function's own helpers

Blank == {" ", "\n"}

\* s without its surrounding whitespace: from its first to its last
\* non-blank character.
Trimmed(s) ==
    LET solid == {i \in 1..Len(s) : s[i] \notin Blank}
    IN  IF solid = {} THEN <<>>
        ELSE SubSeq(s, CHOOSE i \in solid : \A j \in solid : i <= j,
                       CHOOSE i \in solid : \A j \in solid : j <= i)

\* The text a record carries in a field: the string form of the value, the
\* empty text when the field is absent.
FieldText(item, key) == IF key \in DOMAIN item.d THEN PyStr(item.d[key]) ELSE <<>>

\* A mapping record whose trimmed before and after texts differ.
Survives(item) ==
    /\ item.t = "dict"
    /\ Trimmed(FieldText(item, text_before_revision))
         # Trimmed(FieldText(item, text_after_revision))

\* The indices of the surviving records of a candidate sequence, ascending.
Survivors(cand) ==
    SelectSeq([i \in 1..Len(cand) |-> i], LAMBDA i : Survives(cand[i]))

Numeral(i) == <<Digit[i + 1]>>

\* A string value that rendering leaves as it is.
PlainString(v) == v.t = "str" /\ \A i \in 1..Len(v.s) : v.s[i] \notin {"|", "\n"}

\* Data row i shows the record json_data[j]: every column other than
\* correction_number whose value in the record is a plain string shows it.
RowShows(i, j) ==
    /\ Len(row_values[i]) = Len(headers)
    /\ \A h \in 1..Len(headers) :
          LET key == headers[h]
          IN  (/\ key # correction_number
               /\ key \in DOMAIN json_data[j].d
               /\ PlainString(json_data[j].d[key]))
              => row_values[i][h] = json_data[j].d[key].s

\* The first cell of a rendered row: the text between "| " and " |".
FirstCell(row) ==
    LET close == CHOOSE p \in 3..(Len(row) - 1) :
                    /\ row[p] = " " /\ row[p + 1] = "|"
                    /\ \A q \in 3..(p - 1) : ~(row[q] = " " /\ row[q + 1] = "|")
    IN  SubSeq(row, 3, close - 1)

TableReturned == pc = "done" /\ replaced

\* C1: when N records survive the filtering, the table has N data rows,
\* row i shows the i-th surviving record of the input (original relative
\* order) and its correction_number cell, the first of the row, reads i,
\* whatever number the record carried in the input.
C1_Renumbering ==
    TableReturned =>
        LET surv == Survivors(json_data)
            N == Len(surv)
        IN  /\ Len(data_rows) = N
            /\ Len(row_values) = N
            /\ N > 0 => headers[1] = correction_number
            /\ \A i \in 1..N :
                  /\ row_values[i][1] = Numeral(i)
                  /\ FirstCell(data_rows[i]) = Numeral(i)
                  /\ RowShows(i, surv[i])

\* Two records survive, the first of which carried the number 5 and the
\* second none.
C1_Witness ==
    /\ TableReturned
    /\ Len(data_rows) = 2
    /\ Len(kept) = 2
    /\ correction_number \in DOMAIN json_data[kept[1]].d
    /\ json_data[kept[1]].d[correction_number] = JInt(5)
    /\ correction_number \notin DOMAIN json_data[kept[2]].d

\* The rows of the table are the kept records, one row each, in order.
RowsAreKept ==
    /\ Len(row_values) = Len(kept)
    /\ Len(data_rows) = Len(kept)
    /\ \A i \in 1..Len(kept) : RowShows(i, kept[i])

\* Record j of the candidate sequence has both text fields, as strings that
\* are equal once trimmed.
EqualOnceTrimmed(j) ==
    LET item == json_data[j]
    IN  /\ item.t = "dict"
        /\ text_before_revision \in DOMAIN item.d
        /\ text_after_revision \in DOMAIN item.d
        /\ item.d[text_before_revision].t = "str"
        /\ item.d[text_after_revision].t = "str"
        /\ Trimmed(item.d[text_before_revision].s)
             = Trimmed(item.d[text_after_revision].s)

\* C2: a record whose text_before_revision and text_after_revision are equal
\* after trimming surrounding whitespace is no row of the table.
C2_EqualityFilter ==
    TableReturned =>
        /\ RowsAreKept
        /\ \A j \in 1..Len(json_data) : EqualOnceTrimmed(j) => j \notin Range(kept)

\* A record whose texts differ only in surrounding whitespace was dropped
\* while another record made a row.
C2_Witness ==
    /\ TableReturned
    /\ Len(data_rows) = 1
    /\ \E j \in 1..Len(json_data) :
          /\ EqualOnceTrimmed(j)
          /\ json_data[j].d[text_before_revision] # json_data[j].d[text_after_revision]

\* A record without its correction_number.
WithoutNumber(item) ==
    [k \in (DOMAIN item.d) \ {correction_number} |-> item.d[k]]

\* C3: the surviving records are exactly the mapping records whose trimmed
\* before and after texts differ (letter case counts), in input order, each
\* with its content as it came; nothing else is dropped and nothing is
\* reordered.
C3_StableFilter ==
    TableReturned =>
        LET surv == Survivors(json_data)
        IN  /\ kept = surv
            /\ Len(filtered_data) = Len(surv)
            /\ filtered_count =
                  Cardinality({j \in 1..Len(json_data) :
                                  json_data[j].t = "dict" /\ ~Survives(json_data[j])})
            /\ \A i \in 1..Len(surv) :
                  /\ WithoutNumber(filtered_data[i]) = WithoutNumber(json_data[surv[i]])
                  /\ RowShows(i, surv[i])

\* Two records with the same content, differing from before to after only
\* in letter case, both survive.
C3_Witness ==
    /\ TableReturned
    /\ Len(json_data) = 2
    /\ json_data[1] = json_data[2]
    /\ json_data[1].t = "dict"
    /\ lower(FieldText(json_data[1], text_before_revision))
         = lower(FieldText(json_data[1], text_after_revision))
    /\ kept = <<1, 2>>
    /\ Len(data_rows) = 2

\* The text of the single segment of the returned response.
TableText == returned.content.parts[1].text.raw

\* What follows the heading in the returned text.
TableBody == SubSeq(TableText, Len(prefix) + 1, Len(TableText))

\* The physical lines of a text.
RECURSIVE SplitLines(_)
SplitLines(s) ==
    IF \A i \in 1..Len(s) : s[i] # "\n" THEN <<s>>
    ELSE LET p == CHOOSE i \in 1..Len(s) :
                     s[i] = "\n" /\ \A j \in 1..(i - 1) : s[j] # "\n"
         IN  <<SubSeq(s, 1, p - 1)>> \o SplitLines(SubSeq(s, p + 1, Len(s)))

\* The column separators of a line: the pipes no backslash escapes.
Separators(line) ==
    Cardinality({i \in 1..Len(line) : line[i] = "|" /\ (i = 1 \/ line[i - 1] # "\\")})

\* C4: every rendered row (header, separator, each data row) is one
\* physical line and has as many unescaped column separators as the header
\* row, for keys and values that may hold pipes or line breaks.
C4_Escaping ==
    TableReturned =>
        LET lines == SplitLines(TableBody)
        IN  /\ Len(lines) = 2 + Len(data_rows)
            /\ \A l \in 1..Len(lines) : Separators(lines[l]) = Separators(lines[1])

\* The part of C4 that the code keeps: values are escaped, so each data
\* row is one line with as many separators as the separator row.
C4_ValuesEscaped ==
    TableReturned =>
        \A i \in 1..Len(data_rows) :
            /\ \A c \in 1..Len(data_rows[i]) : data_rows[i][c] # "\n"
            /\ Separators(data_rows[i]) = Separators(separator_row(headers))

\* The segments of a response that hold text json.loads accepts.
ParsedAt(resp) ==
    {i \in 1..Len(resp.content.parts) :
        resp.content.parts[i].has_text /\ resp.content.parts[i].text.wf}

\* The response has no content, no segments, or no segment that parses.
NothingParses(resp) ==
    \/ ~resp.content.present
    \/ ~resp.content.parts_set
    \/ ParsedAt(resp) = {}

\* C5: a response with no content, no content segments, or no segment whose
\* text parses is returned as it is, segment for segment.
C5_PassThrough ==
    (pc = "done" /\ NothingParses(llm_response)) =>
        /\ ~replaced
        /\ returned = llm_response

\* A response of two segments, one free text and one without text, came
\* back unchanged.
C5_Witness ==
    /\ pc = "done"
    /\ llm_response.content.present
    /\ Len(llm_response.content.parts) = 2
    /\ \E i \in 1..2 : llm_response.content.parts[i] = TextPart(Hello)
    /\ ParsedAt(llm_response) = {}
    /\ returned = llm_response

\* The payload of the first segment that parses.
FirstParsed(resp) ==
    resp.content.parts[CHOOSE i \in ParsedAt(resp) :
                          \A j \in ParsedAt(resp) : i <= j].text.doc

\* The two accepted shapes.
AcceptedShape(doc) ==
    \/ doc.t = "list"
    \/ /\ doc.t = "dict"
       /\ corrections_key \in DOMAIN doc.d
       /\ doc.d[corrections_key].t = "list"

\* The returned response is a table: one text segment opening with the
\* heading.
IsTable(resp) ==
    /\ resp.content.present
    /\ Len(resp.content.parts) = 1
    /\ resp.content.parts[1].has_text
    /\ Len(resp.content.parts[1].text.raw) >= Len(prefix)
    /\ SubSeq(resp.content.parts[1].text.raw, 1, Len(prefix)) = prefix

\* C6: a parsed payload of neither accepted shape gives back the original
\* response and no table; a payload of either accepted shape gives a table.
C6_UnrecognizedPayload ==
    (pc = "done" /\ ~NothingParses(llm_response)) =>
        IF AcceptedShape(FirstParsed(llm_response))
        THEN replaced /\ IsTable(returned) /\ returned # llm_response
        ELSE ~replaced /\ returned = llm_response /\ ~IsTable(returned)

\* A mapping whose "corrections" value is itself a mapping was passed
\* through.
C6_Witness ==
    /\ pc = "done"
    /\ ~NothingParses(llm_response)
    /\ FirstParsed(llm_response) = JDict(corrections_key :> FooBar)
    /\ returned = llm_response

\* The candidate sequence of a payload of an accepted shape.
CandidateOf(doc) ==
    IF doc.t = "list" THEN doc.items ELSE doc.d[corrections_key].items

\* The response carries a payload of an accepted shape.
Accepted(resp) == ~NothingParses(resp) /\ AcceptedShape(FirstParsed(resp))

\* C7: for a payload of an accepted shape with N surviving records the
\* returned text is the heading, a header row, a separator row of the same
\* column count and exactly N data rows in renumbered order; with N = 0 it
\* is the header and separator rows only, never the original response.
C7_TableStructure ==
    (pc = "done" /\ Accepted(llm_response)) =>
        /\ IsTable(returned)
        /\ returned # llm_response
        /\ LET N == Len(Survivors(CandidateOf(FirstParsed(llm_response))))
               lines == SplitLines(TableBody)
           IN  /\ Len(lines) = 2 + N
               /\ Separators(lines[1]) = Separators(lines[2])
               /\ \A i \in 1..N : FirstCell(lines[2 + i]) = Numeral(i)

\* The part of C7 about N = 0, which the code keeps: an accepted payload
\* with no surviving record gives the heading, an empty header row and an
\* empty separator row, not the original response.
C7_EmptyTable ==
    (/\ pc = "done"
     /\ Accepted(llm_response)
     /\ Survivors(CandidateOf(FirstParsed(llm_response))) = <<>>) =>
        /\ replaced
        /\ returned # llm_response
        /\ IsTable(returned)
        /\ SplitLines(TableBody) = << <<"|", " ", " ", "|">>, <<"|", " ", " ", "|">> >>

\* The keys of the surviving records as rendered: the keys they came with
\* and, once a record survives, the correction_number it is given.
SurvivingKeys ==
    LET surv == Survivors(json_data)
    IN  UNION {DOMAIN json_data[surv[i]].d : i \in 1..Len(surv)}
        \cup (IF surv = <<>> THEN {} ELSE {correction_number})

Preferred == Range(desired_order)

PreferredRank(key) == CHOOSE r \in 1..Len(desired_order) : desired_order[r] = key

\* a sorts before b: at the first place they differ a has the smaller
\* code point, or a ends there.
Precedes(a, b) ==
    \E p \in 1..(Len(b)) :
        /\ \A q \in 1..(p - 1) : q <= Len(a) /\ a[q] = b[q]
        /\ \/ p = Len(a) + 1
           \/ p <= Len(a) /\ CodePoint(a[p]) < CodePoint(b[p])

\* C8: the columns are the preferred keys occurring in a surviving record,
\* in preferred order, then every other key of a surviving record, sorted;
\* no key of filtered-out records only, no column twice; a record lacking a
\* column's key, or holding null for it, has an empty cell there.
C8_ColumnSet ==
    TableReturned =>
        /\ Range(headers) = SurvivingKeys
        /\ Len(headers) = Cardinality(SurvivingKeys)
        /\ \A a, b \in 1..Len(headers) :
              a < b =>
                  /\ headers[b] \in Preferred => headers[a] \in Preferred
                  /\ (headers[a] \in Preferred /\ headers[b] \in Preferred)
                        => PreferredRank(headers[a]) < PreferredRank(headers[b])
                  /\ (headers[a] \notin Preferred /\ headers[b] \notin Preferred)
                        => Precedes(headers[a], headers[b])
        /\ Len(row_values) = Len(Survivors(json_data))
        /\ \A i \in 1..Len(row_values) :
              LET item == json_data[Survivors(json_data)[i]]
              IN  /\ Len(row_values[i]) = Len(headers)
                  /\ \A h \in 1..Len(headers) :
                        (/\ headers[h] # correction_number
                         /\ \/ headers[h] \notin DOMAIN item.d
                            \/ item.d[headers[h]].t = "null")
                        => row_values[i][h] = <<>>

\* Two surviving records with different keys, two of them outside the
\* preferred order, one key null in one record and absent in the other,
\* beside a filtered-out record with a key of its own.
C8_Witness ==
    /\ TableReturned
    /\ \E a, b \in 1..Len(headers) :
          a < b /\ headers[a] \notin Preferred /\ headers[b] \notin Preferred
    /\ \E j \in 1..Len(json_data) :
          /\ json_data[j].t = "dict"
          /\ ~Survives(json_data[j])
          /\ (DOMAIN json_data[j].d) \ SurvivingKeys # {}
    /\ \E i \in 1..Len(row_values) : \E h \in 2..Len(headers) : row_values[i][h] = <<>>

\* C9 as claimed: a substituted response has one segment, the table, and
\* the role of the original response's content.
C9_RolePreserved ==
    TableReturned =>
        /\ Len(returned.content.parts) = 1
        /\ returned.content.role = llm_response.content.role

\* C9 as amended: a substituted response has exactly one segment, holding
\* the rendered table text, and its role is "model" whatever role the
\* original carried.
C9_Substitution ==
    TableReturned =>
        /\ returned.content.present
        /\ returned.content.parts_set
        /\ Len(returned.content.parts) = 1
        /\ returned.content.parts[1].has_text
        /\ TableText =
              prefix \o header_row(headers) \o <<"\n">> \o separator_row(headers)
                     \o (IF data_rows = <<>> THEN <<>>
                         ELSE <<"\n">> \o join(<<"\n">>, data_rows))
        /\ returned.content.role = "model"

\* A response whose content had the role "user" and two segments was
\* replaced by a table.
C9_Witness ==
    /\ TableReturned
    /\ llm_response.content.role = "user"
    /\ Len(llm_response.content.parts) = 2
    /\ Len(data_rows) >= 1

\* C10: the call changes neither the response object it was given nor any
\* entry of callback_context.state; filtering and renumbering show in the
\* returned table only.
C10_NoMutation ==
    [][llm_response' = llm_response /\ state' = state]_vars

\* A table was returned in which a record was dropped and another
\* renumbered, while the response passed in still holds the payload with
\* both records and the original number.
C10_Witness ==
    /\ TableReturned
    /\ filtered_count = 1
    /\ Len(kept) = 1
    /\ correction_number \in DOMAIN json_data[kept[1]].d
    /\ json_data[kept[1]].d[correction_number] # JInt(1)
    /\ filtered_data[1].d[correction_number] = JInt(1)
    /\ CandidateOf(FirstParsed(llm_response)) = json_data
    /\ state.file_content = "document A"

\* The index of the first segment that parses.
FirstParsedAt(resp) == CHOOSE i \in ParsedAt(resp) : \A j \in ParsedAt(resp) : i <= j

\* C16: the segments are examined in order, those without text or whose
\* text does not parse are skipped, and the first that parses alone
\* decides: of an accepted shape, its candidate sequence is the one
\* rendered; of any other shape, the original response comes back, whatever
\* the later segments hold.
C16_FirstParseWins ==
    (pc = "done" /\ ~NothingParses(llm_response)) =>
        LET doc == FirstParsed(llm_response)
        IN  IF AcceptedShape(doc)
            THEN /\ replaced
                 /\ json_data = CandidateOf(doc)
                 /\ kept = Survivors(CandidateOf(doc))
                 /\ Len(data_rows) = Len(Survivors(CandidateOf(doc)))
            ELSE /\ ~replaced
                 /\ returned = llm_response
                 /\ data_rows = <<>>

\* The first segment parses to a mapping of no accepted shape, a later one
\* holds a payload of an accepted shape, and the original came back.
C16_Witness ==
    /\ pc = "done"
    /\ ~NothingParses(llm_response)
    /\ ~AcceptedShape(FirstParsed(llm_response))
    /\ \E i \in ParsedAt(llm_response) :
          /\ i > FirstParsedAt(llm_response)
          /\ AcceptedShape(llm_response.content.parts[i].text.doc)
    /\ returned = llm_response

\* C17: every element of the candidate sequence that is not a mapping is
\* dropped without an error: it makes no row and no column, takes no
\* correction_number, and the mapping records around it are rendered; the
\* call ends in no error for any parsed payload.
C17_MalformedRecords ==
    pc = "done" =>
        /\ error = "none"
        /\ Accepted(llm_response) =>
              LET cand == CandidateOf(FirstParsed(llm_response))
                  good == SelectSeq(cand, LAMBDA x : x.t = "dict")
                  N == Len(Survivors(good))
              IN  /\ replaced
                  /\ \A i \in 1..Len(kept) : cand[kept[i]].t = "dict"
                  /\ Len(data_rows) = N
                  /\ \A i \in 1..N :
                        /\ row_values[i][1] = Numeral(i)
                        /\ WithoutNumber(filtered_data[i])
                              = WithoutNumber(good[Survivors(good)[i]])
                  /\ Range(headers) \subseteq
                        {correction_number}
                        \cup UNION {DOMAIN good[g].d : g \in 1..Len(good)}

\* A sequence of a scalar, null or nested sequence followed by a surviving
\* record gave a table of one row, numbered 1.
C17_Witness ==
    /\ TableReturned
    /\ error = "none"
    /\ Len(json_data) = 2
    /\ json_data[1].t # "dict"
    /\ kept = <<2>>
    /\ row_values[1][1] = Numeral(1)

\* The string form of a value.
StringForm(v) ==
    CASE v.t = "str"  -> v.s
      [] v.t = "null" -> <<"N", "o", "n", "e">>
      [] v.t = "int" /\ v.n < 10 -> Numeral(v.n)
      [] v.t = "list" /\ v.items = <<>> -> <<"[", "]">>

HasText(item, key) == key \in DOMAIN item.d

BlankField(item, key) ==
    HasText(item, key) /\ Trimmed(StringForm(item.d[key])) = <<>>

\* C18: in the equality filter an absent text field counts as empty text.
\* A mapping record with neither field, or with both blank, is dropped; a
\* record with exactly one of them, not blank, survives; two values whose
\* string forms are equal after trimming (null and "None", 1 and "1") are
\* dropped.
C18_AbsentFields ==
    TableReturned =>
        \A j \in 1..Len(json_data) :
            LET item == json_data[j]
                b == text_before_revision
                a == text_after_revision
            IN  item.t = "dict" =>
                  /\ (~HasText(item, b) /\ ~HasText(item, a)) => j \notin Range(kept)
                  /\ (BlankField(item, b) /\ BlankField(item, a)) => j \notin Range(kept)
                  /\ (HasText(item, b) /\ ~BlankField(item, b) /\ ~HasText(item, a))
                        => j \in Range(kept)
                  /\ (HasText(item, a) /\ ~BlankField(item, a) /\ ~HasText(item, b))
                        => j \in Range(kept)
                  /\ (/\ HasText(item, b) /\ HasText(item, a)
                      /\ Trimmed(StringForm(item.d[b])) = Trimmed(StringForm(item.d[a])))
                        => j \notin Range(kept)

\* A record holding null and "None" was dropped beside a record with only
\* text_after_revision, which made the one row.
C18_Witness ==
    /\ TableReturned
    /\ Len(json_data) = 2
    /\ \E j \in 1..2 :
          /\ json_data[j].t = "dict"
          /\ HasText(json_data[j], text_before_revision)
          /\ json_data[j].d[text_before_revision].t = "null"
          /\ HasText(json_data[j], text_after_revision)
          /\ json_data[j].d[text_after_revision].t = "str"
          /\ j \notin Range(kept)
    /\ \E j \in 1..2 :
          /\ json_data[j].t = "dict"
          /\ ~HasText(json_data[j], text_before_revision)
          /\ HasText(json_data[j], text_after_revision)
          /\ kept = <<j>>


---------------------------------------------------------------------------
\* Claims about audit_pipeline

\* The stages in the order the specification gives them.
StageOrder ==
    <<"file_retrieval_agent", "spelling_grammar_auditor_agent",
      "guidelines_compliance_auditor_agent", "audit_results_aggregator_agent">>

Position(stage) == CHOOSE i \in 1..Len(StageOrder) : StageOrder[i] = stage

\* The context keys the specification has each stage read.
ReadKeys(stage) ==
    CASE Position(stage) = 1 -> {}
      [] Position(stage) = 2 -> {"file_content"}
      [] Position(stage) = 3 -> {"file_content", "spelling_grammar_audit_result"}
      [] Position(stage) = 4 -> {"file_content", "spelling_grammar_audit_result",
                                "guidelines_compliance_audit_result"}

IsPrefix(s, t) == Len(s) <= Len(t) /\ s = SubSeq(t, 1, Len(s))

\* C11: the stages start one at a time in the order retrieval, spelling and
\* grammar review, guidelines review, aggregation; a stage that has started
\* finds every key it reads in the context, written by a strictly earlier
\* stage; no stage starts with a read key absent and no two are active at
\* once.
C11_DependencyOrder ==
    /\ IsPrefix(started, StageOrder)
    /\ Cardinality(active) <= 1
    /\ error # "KeyError"
    /\ \A stage \in active :
          /\ stage = started[Len(started)]
          /\ \A k \in ReadKeys(stage) :
                /\ k \in DOMAIN state
                /\ Position(written_by[k]) < Position(stage)
    /\ \A i \in 1..Len(outputs) : outputs[i].agent = StageOrder[i]

C11_Witness ==
    /\ active = {"audit_results_aggregator_agent"}
    /\ started = StageOrder
    /\ Len(outputs) = 3

\* C12: once a stage has raised, the run has failed at that stage: it is the
\* last stage started, it raised once and did not complete, no later stage
\* was started, the interceptor did not run, no table was built and the
\* caller observes the failure.
C12_FailFast ==
    raised # <<>> =>
        /\ run_status = "failed"
        /\ Len(raised) = 1
        /\ started # <<>> /\ started[Len(started)] = raised[1]
        /\ IsPrefix(started, StageOrder)
        /\ \A i \in 1..Len(outputs) : outputs[i].agent # raised[1]
        /\ Len(outputs) = Len(started) - 1
        /\ active = {}
        /\ callback_calls = <<>>
        /\ ~replaced
        /\ outcome = Failure

C12_Witness ==
    /\ raised = <<"spelling_grammar_auditor_agent">>
    /\ run_status = "failed"
    /\ Len(outputs) = 1

\* The output keys the specification names, per stage position.
DeclaredKey == <<"file_content", "spelling_grammar_audit_result",
                 "guidelines_compliance_audit_result">>

C14_AppendOnly ==
    [][\A k \in DOMAIN state :
          /\ k \in DOMAIN state'
          /\ state'[k] = state[k]
          /\ written_by'[k] = written_by[k]]_vars

C14_Witness ==
    /\ Cardinality(DOMAIN state) = 3
    /\ Cardinality({written_by[k] : k \in DOMAIN written_by}) = 3
    /\ callback_calls # <<>>
    /\ replaced
    /\ run_status = "finished"

\* C15: json_to_markdown_table runs for the aggregation stage only, once,
\* after its model answered; the caller receives what it returned; the
\* outputs of the three earlier stages are the model's text as emitted, and
\* that text is what the context hands to the next stage.
C15_InterceptorPlacement ==
    /\ \A i \in 1..Len(callback_calls) :
          callback_calls[i] = "audit_results_aggregator_agent"
    /\ Len(callback_calls) <= 1
    /\ callback_calls # <<>> => Len(outputs) >= 3
    /\ \A i \in 1..Len(outputs) :
          i <= 3 => /\ outputs[i].out = outputs[i].raw
                    /\ state[DeclaredKey[i]] = outputs[i].raw
    /\ run_status = "finished" =>
          /\ callback_calls = <<"audit_results_aggregator_agent">>
          /\ outcome = Answer(returned)
          /\ returned = Run(llm_response).returned

C15_Witness ==
    /\ run_status = "finished"
    /\ replaced
    /\ IsTable(outcome.response)
    /\ state["file_content"] = JsonText(JDict(corrections_key :> JList(<<CaseRecord>>)))
    /\ state["guidelines_compliance_audit_result"] = JsonText(JList(<<S1Record>>))

====
